---- MODULE Spec2Model ----
(***************************************************************************)
(* Model of src/server.py (anki-mcp): the batch mutation tools             *)
(* create_notes_bulk / update_note / update_notes_bulk and the similarity  *)
(* search find_similar_notes, run against an external Record Store         *)
(* (AnkiConnect) and an external Embedding Provider.                       *)
(*                                                                         *)
(* Every tool is one action: the whole handler runs atomically (the server *)
(* awaits nothing between its synchronous requests) and leaves behind      *)
(*   store  - the Record Store's notes after the call                      *)
(*   pre    - the Record Store's notes when the call started               *)
(*   op     - the tool invoked and its arguments                           *)
(*   env    - what the external services answered during the call          *)
(*   calls  - the external requests the call issued, in order              *)
(*   result - what the tool returned (or the exception that escaped it)    *)
(*   ranked - find_similar_notes' `similarities` list before formatting    *)
(***************************************************************************)
EXTENDS Integers, Sequences, FiniteSets, TLC

VARIABLES store, pre, op, env, calls, result, ranked

vars == <<store, pre, op, env, calls, result, ranked>>

(***************************************************************************)
(* Bounds and small input sets                                             *)
(***************************************************************************)
\* longest notes_list / updates list a caller passes
MaxBatch == 2

\* note identifiers the store can hand out
NoteIds == {1, 2}

FieldNames == {"Front", "Back"}

\* field texts: "" is a text that is empty after strip(), "a" one that is not
Values == {"", "a"}

TagLists == {<<>>, <<"t">>}

\* Python's None for an optional argument, and a supplied value
None == <<>>

Some(x) == <<x>>

\* the null identifier of a bulk-create response
Null == 0

\* how one HTTP request to the Record Store can end: status 200 with a result,
\* a non-200 status, a 200 payload with an error field, requests.post raising
Outcomes == {"ok", "status", "error", "raise"}

(***************************************************************************)
(* Helpers on sequences                                                    *)
(***************************************************************************)
RECURSIVE SetToSeq(_)
SetToSeq(S) ==
  IF S = {} THEN <<>>
  ELSE LET m == CHOOSE x \in S : \A y \in S : x <= y
       IN <<m>> \o SetToSeq(S \ {m})

SeqsUpTo(S, n) == UNION {[1..k -> S] : k \in 0..n}

PartialMaps(D, R) == UNION {[K -> R] : K \in SUBSET D}

(***************************************************************************)
(* The Record Store (external collaborator, spec section 6)                *)
(***************************************************************************)
Notes == [modelName : {"Basic"}, fields : [FieldNames -> Values], tags : TagLists]

Stores == UNION {[K -> Notes] : K \in SUBSET NoteIds}

\* notesInfo: one entry per requested id, {} for an id the store does not hold
NoteInfo(st, id) ==
  IF id \in DOMAIN st
  THEN [noteId |-> id, modelName |-> st[id].modelName, tags |-> st[id].tags,
        fields |-> [f \in DOMAIN st[id].fields |-> [value |-> st[id].fields[f]]]]
  ELSE <<>>

StoreNotesInfo(st, ids) == [i \in 1..Len(ids) |-> NoteInfo(st, ids[i])]

\* updateNoteFields: writes the fields and the tags the request carries
StoreUpdateNoteFields(st, note) ==
  [st EXCEPT ![note.id] =
     [@ EXCEPT !.fields = [f \in DOMAIN @ |->
                             IF f \in DOMAIN note.fields THEN note.fields[f] ELSE @[f]],
               !.tags = note.tags]]

\* addNotes: notes are added in order, each getting the least free identifier;
\* a note the store rejects (accept[i] false, or no identifier left) yields null
RECURSIVE StoreAddNotes(_, _, _, _)
StoreAddNotes(st, notes, accept, i) ==
  IF i > Len(notes) THEN [st |-> st, ids |-> <<>>]
  ELSE LET free == NoteIds \ DOMAIN st
           ok == accept[i] /\ free # {}
           id == IF ok THEN CHOOSE x \in free : \A y \in free : x <= y ELSE Null
           st1 == IF ok
                  THEN [k \in DOMAIN st \cup {id} |->
                          IF k = id
                          THEN [modelName |-> notes[i].modelName,
                                fields |-> notes[i].fields, tags |-> notes[i].tags]
                          ELSE st[k]]
                  ELSE st
           rest == StoreAddNotes(st1, notes, accept, i + 1)
       IN [st |-> rest.st, ids |-> <<id>> \o rest.ids]

\* findNotes deck:"<deck_name>": every stored note lives in deck "Demo"
StoreFindNotes(st, deck_name) ==
  IF deck_name = "Demo" THEN SetToSeq(DOMAIN st) ELSE <<>>

Request(action, params) == [action |-> action, params |-> params]

(***************************************************************************)
(* update_note (src/server.py 262-335)                                     *)
(***************************************************************************)
\* the mapping sent if the existing values were not copied first
UpdatedFieldsNoMerge(current_fields, fields) == fields

\* lines 293-300: existing values kept, caller's names overlaid
UpdatedFields(current_fields, fields) ==
  [f \in DOMAIN current_fields \cup DOMAIN fields |->
     IF f \in DOMAIN fields THEN fields[f] ELSE current_fields[f].value]

\* the tags sent if the test were `if tags:` (an empty list counts as absent)
NoteDataTagsTruthy(tags, current_note) ==
  IF tags # None /\ tags[1] # <<>> THEN tags[1] ELSE current_note.tags

\* lines 308-312: `if tags is not None`
NoteDataTags(tags, current_note) ==
  IF tags # None THEN tags[1] ELSE current_note.tags

ConnectError == [error |-> "Failed to connect to Anki", success |-> FALSE]

AnkiError == [error |-> "anki error", success |-> FALSE]

\* the handler's outcome: raised (an exception left it) or returned `res`
Raised(st, cs) == [raised |-> TRUE, res |-> <<>>, st |-> st, calls |-> cs]

Returned(res, st, cs) == [raised |-> FALSE, res |-> res, st |-> st, calls |-> cs]

\* e.fetch / e.write: how the notesInfo / updateNoteFields request ends
update_note(st, note_id, fields, tags, e) ==
  LET c1 == <<Request("notesInfo", <<note_id>>)>>
      notes_info == StoreNotesInfo(st, <<note_id>>)
      current_note == notes_info[1]
      note_data == [id |-> note_id,
                    fields |-> UpdatedFields(current_note.fields, fields),
                    tags |-> NoteDataTags(tags, current_note)]
      c2 == c1 \o <<Request("updateNoteFields", note_data)>>
  IN CASE e.fetch = "raise" -> Raised(st, c1)
       [] e.fetch = "status" -> Returned(ConnectError, st, c1)
       [] e.fetch = "error" -> Returned(AnkiError, st, c1)
       [] e.fetch = "ok" /\ current_note = <<>> ->
            Returned([error |-> "Note not found", success |-> FALSE], st, c1)
       [] OTHER ->
            CASE e.write = "raise" -> Raised(st, c2)
              [] e.write = "status" -> Returned(ConnectError, st, c2)
              [] e.write = "error" -> Returned(AnkiError, st, c2)
              [] OTHER ->
                   Returned([success |-> TRUE, note_id |-> note_id,
                             updated_fields |-> DOMAIN fields],
                            StoreUpdateNoteFields(st, note_data), c2)

\* the answers that lead to different paths of update_note
UpdateEnvs ==
  {[fetch |-> "ok", write |-> w] : w \in Outcomes}
    \cup {[fetch |-> f, write |-> "ok"] : f \in Outcomes \ {"ok"}}

\* what the caller sees when an exception leaves a handler: no structured result
Escaped == [exception |-> "RequestException"]

NoFault == [fetch |-> "ok", write |-> "ok"]

Idle == [name |-> "none"]

Init ==
  /\ store \in Stores
  /\ pre = store
  /\ op = Idle
  /\ env = <<>>
  /\ calls = <<>>
  /\ result = <<>>
  /\ ranked = <<>>

\* the tool update_note called directly: an exception leaves the handler
UpdateNote ==
  /\ op = Idle
  /\ \E note_id \in NoteIds, fields \in PartialMaps(FieldNames, Values),
       tags \in {None} \cup {Some(t) : t \in TagLists}, e \in UpdateEnvs :
      LET r == update_note(store, note_id, fields, tags, e)
      IN /\ op' = [name |-> "update_note", note_id |-> note_id,
                   fields |-> fields, tags |-> tags]
         /\ env' = e
         /\ pre' = store
         /\ store' = r.st
         /\ calls' = r.calls
         /\ result' = IF r.raised THEN Escaped ELSE r.res
         /\ ranked' = <<>>

(***************************************************************************)
(* update_notes_bulk (src/server.py 727-791)                               *)
(***************************************************************************)
\* a list item that is not a dict
NotADict == [nondict |-> "text"]

IsDict(x) == "nondict" \notin DOMAIN x

\* dict.get(key): None when the key is missing
Get(d, key) == IF key \in DOMAIN d THEN Some(d[key]) ELSE None

\* the entry of an item rejected before any request if it carried the 1-based
\* position that create_notes_bulk's messages use
InvalidEntryOneBased(i, error, update_data) ==
  [index |-> i + 1, error |-> error, data |-> update_data]

\* lines 740-744, 748-752: the entry of an item rejected before any request
InvalidEntry(i, error, update_data) ==
  [index |-> i, error |-> error, data |-> update_data]

\* one iteration of the loop of lines 738-781 on item `update_data` at
\* enumerate index i; acc carries the store, the two lists and the requests
UpdateItem(acc, update_data, i, e) ==
  IF ~IsDict(update_data)
  THEN [acc EXCEPT !.failed =
              Append(@, InvalidEntry(i, "Update data is not a dictionary", update_data))]
  ELSE IF "note_id" \notin DOMAIN update_data \/ "fields" \notin DOMAIN update_data
  THEN [acc EXCEPT !.failed =
              Append(@, InvalidEntry(i, "Missing required 'note_id' or 'fields'", update_data))]
  ELSE LET r == update_note(acc.st, update_data.note_id, update_data.fields,
                            Get(update_data, "tags"), e)
       IN IF r.raised
          THEN [acc EXCEPT !.calls = r.calls,
                           !.failed = Append(@, [index |-> i,
                                                 note_id |-> update_data.note_id,
                                                 error |-> "RequestException",
                                                 data |-> update_data])]
          ELSE IF r.res.success
          THEN [acc EXCEPT !.st = r.st, !.calls = r.calls,
                           !.successful = Append(@, [note_id |-> update_data.note_id,
                                                     updated_fields |-> r.res.updated_fields])]
          ELSE [acc EXCEPT !.calls = r.calls,
                           !.failed = Append(@, [index |-> i,
                                                 note_id |-> update_data.note_id,
                                                 error |-> r.res.error,
                                                 data |-> update_data])]

\* the requests of item i, tagged with the index of the item that issued them
ItemCalls(cs, i) == [k \in 1..Len(cs) |-> [item |-> i, request |-> cs[k]]]

\* the loop as it would run if a failed item ended it
RECURSIVE UpdateLoopStop(_, _, _, _)
UpdateLoopStop(acc, updates, e, k) ==
  IF k > Len(updates) THEN acc
  ELSE LET one == UpdateItem([acc EXCEPT !.calls = <<>>], updates[k], k - 1, e[k])
           next == [one EXCEPT !.calls = acc.calls \o ItemCalls(one.calls, k - 1)]
       IN IF Len(one.failed) > Len(acc.failed) THEN next
          ELSE UpdateLoopStop(next, updates, e, k + 1)

\* the loop as it would run if every item were merged into the notes as they
\* were when the batch began (all fetches ahead of all writes)
RECURSIVE UpdateLoopStale(_, _, _, _)
UpdateLoopStale(acc, updates, e, k) ==
  IF k > Len(updates) THEN acc
  ELSE LET st0 == IF "st0" \in DOMAIN acc THEN acc.st0 ELSE acc.st
           one == UpdateItem([st |-> st0, successful |-> acc.successful,
                              failed |-> acc.failed, calls |-> <<>>],
                             updates[k], k - 1, e[k])
           st1 == IF Len(one.successful) > Len(acc.successful)
                  THEN [acc.st EXCEPT ![updates[k].note_id] = one.st[updates[k].note_id]]
                  ELSE acc.st
       IN UpdateLoopStale([st |-> st1, st0 |-> st0, successful |-> one.successful,
                           failed |-> one.failed,
                           calls |-> acc.calls \o ItemCalls(one.calls, k - 1)],
                          updates, e, k + 1)

\* lines 738-781: every item is visited; a failed item is recorded and the loop
\* goes on
RECURSIVE UpdateLoop(_, _, _, _)
UpdateLoop(acc, updates, e, k) ==
  IF k > Len(updates) THEN acc
  ELSE LET one == UpdateItem([acc EXCEPT !.calls = <<>>], updates[k], k - 1, e[k])
       IN UpdateLoop([one EXCEPT !.calls = acc.calls \o ItemCalls(one.calls, k - 1)],
                     updates, e, k + 1)

update_notes_bulk(st, updates, e) ==
  IF updates = <<>>
  THEN [res |-> [error |-> "No updates provided", success |-> FALSE],
        st |-> st, calls |-> <<>>]
  ELSE LET acc == UpdateLoop([st |-> st, successful |-> <<>>, failed |-> <<>>,
                              calls |-> <<>>], updates, e, 1)
       IN [res |-> [success |-> TRUE,
                    total_attempted |-> Len(updates),
                    successful_count |-> Len(acc.successful),
                    failed_count |-> Len(acc.failed),
                    successful_updates |-> acc.successful,
                    failed_updates |-> acc.failed],
           st |-> acc.st, calls |-> acc.calls]

\* the items a caller puts in an updates list
BulkFields == {[Back |-> "a"], [Front |-> "a", Back |-> ""]}

UpdateItems ==
  {NotADict, [fields |-> [Back |-> "a"]], [note_id |-> 1]}
    \cup {[note_id |-> n, fields |-> f] : n \in NoteIds, f \in BulkFields}
    \cup {[note_id |-> n, fields |-> [Back |-> "a"], tags |-> <<>>] : n \in NoteIds}

\* what the store can answer to one item's update_note
BulkEnvs == {NoFault, [fetch |-> "error", write |-> "ok"], [fetch |-> "ok", write |-> "raise"]}

\* an item that reaches update_note
WellFormedUpdate(x) == IsDict(x) /\ "note_id" \in DOMAIN x /\ "fields" \in DOMAIN x

\* one answer per item; items that never reach the store have none to choose
BulkEnvFor(updates) ==
  {e \in [1..Len(updates) -> BulkEnvs] :
     \A k \in 1..Len(updates) : ~WellFormedUpdate(updates[k]) => e[k] = NoFault}

UpdateNotesBulk ==
  /\ op = Idle
  /\ \E updates \in SeqsUpTo(UpdateItems, MaxBatch) :
       \E e \in BulkEnvFor(updates) :
         LET r == update_notes_bulk(store, updates, e)
         IN /\ op' = [name |-> "update_notes_bulk", updates |-> updates]
            /\ env' = e
            /\ pre' = store
            /\ store' = r.st
            /\ calls' = r.calls
            /\ result' = r.res
            /\ ranked' = <<>>

(***************************************************************************)
(* create_notes_bulk (src/server.py 593-646)                               *)
(***************************************************************************)
\* lines 604-617: the first item that is not a dict or lacks a key ends the
\* call with an error; otherwise the list of notes for addNotes
RECURSIVE PrepareNotes(_, _, _, _)
PrepareNotes(deck_name, notes_list, i, anki_notes) ==
  IF i > Len(notes_list) THEN [error |-> None, anki_notes |-> anki_notes]
  ELSE LET note_data == notes_list[i]
       IN IF ~IsDict(note_data)
          THEN [error |-> Some("is not a dictionary"), anki_notes |-> anki_notes]
          ELSE IF "model_name" \notin DOMAIN note_data \/ "fields" \notin DOMAIN note_data
          THEN [error |-> Some("missing required 'model_name' or 'fields'"),
                anki_notes |-> anki_notes]
          ELSE PrepareNotes(deck_name, notes_list, i + 1,
                 Append(anki_notes,
                        [deckName |-> deck_name,
                         modelName |-> note_data.model_name,
                         fields |-> note_data.fields,
                         tags |-> IF "tags" \in DOMAIN note_data
                                  THEN note_data.tags ELSE <<>>]))

\* line 636
SuccessfulNotes(note_ids) == SelectSeq(note_ids, LAMBDA id : id # Null)

\* the count if the `is None` filter were missing
FailedCountAll(note_ids) == Len(note_ids)

\* line 637
FailedCount(note_ids) == Len(SelectSeq(note_ids, LAMBDA id : id = Null))

\* e.add: how the addNotes request ends; e.accept: the notes the store takes
create_notes_bulk(st, deck_name, notes_list, e) ==
  IF notes_list = <<>>
  THEN Returned([error |-> "No notes provided", success |-> FALSE], st, <<>>)
  ELSE LET prep == PrepareNotes(deck_name, notes_list, 1, <<>>)
           c1 == <<Request("addNotes", prep.anki_notes)>>
           added == StoreAddNotes(st, prep.anki_notes, e.accept, 1)
           note_ids == added.ids
       IN CASE prep.error # None ->
                 Returned([error |-> prep.error[1], success |-> FALSE], st, <<>>)
            [] prep.error = None /\ e.add = "raise" -> Raised(st, c1)
            [] prep.error = None /\ e.add = "status" -> Returned(ConnectError, st, c1)
            [] prep.error = None /\ e.add = "error" -> Returned(AnkiError, st, c1)
            [] OTHER ->
                 Returned([success |-> TRUE,
                           total_attempted |-> Len(notes_list),
                           successful_count |-> Len(SuccessfulNotes(note_ids)),
                           failed_count |-> FailedCount(note_ids),
                           note_ids |-> note_ids],
                          added.st, c1)

\* the items a caller puts in a notes_list
CreateFields == {[Front |-> "a", Back |-> "a"], [Front |-> "a", Back |-> ""]}

CreateItems ==
  {NotADict, [model_name |-> "Basic"], [fields |-> [Front |-> "a", Back |-> "a"]]}
    \cup {[model_name |-> "Basic", fields |-> f] : f \in CreateFields}
    \cup {[model_name |-> "Basic", fields |-> f, tags |-> <<"t">>] : f \in CreateFields}

WellFormedCreate(x) == IsDict(x) /\ "model_name" \in DOMAIN x /\ "fields" \in DOMAIN x

AllWellFormed(notes_list) ==
  \A k \in 1..Len(notes_list) : WellFormedCreate(notes_list[k])

\* the store is asked only when every item is well-formed; it may refuse the
\* request as a whole or refuse single notes
CreateEnvFor(notes_list) ==
  IF notes_list # <<>> /\ AllWellFormed(notes_list)
  THEN {[add |-> "ok", accept |-> a] : a \in [1..Len(notes_list) -> BOOLEAN]}
         \cup {[add |-> o, accept |-> [k \in 1..Len(notes_list) |-> TRUE]] :
                 o \in Outcomes \ {"ok"}}
  ELSE {[add |-> "ok", accept |-> [k \in 1..Len(notes_list) |-> TRUE]]}

CreateNotesBulk ==
  /\ op = Idle
  /\ \E notes_list \in SeqsUpTo(CreateItems, MaxBatch) :
       \E e \in CreateEnvFor(notes_list) :
         LET r == create_notes_bulk(store, "Demo", notes_list, e)
         IN /\ op' = [name |-> "create_notes_bulk", deck_name |-> "Demo",
                      notes_list |-> notes_list]
            /\ env' = e
            /\ pre' = store
            /\ store' = r.st
            /\ calls' = r.calls
            /\ result' = IF r.raised THEN Escaped ELSE r.res
            /\ ranked' = <<>>

(***************************************************************************)
(* find_similar_notes (src/server.py 502-530, 793-921)                     *)
(***************************************************************************)
\* round(similarity, 4): similarities are kept in units of 1/SimScale, one
\* decimal more than the four that are reported
RoundScale == 10000

SimScale == RoundScale * 10

\* embeddings the provider can return, and a request that fails (a non-200
\* status or requests.post raising: _get_text_embedding raises either way)
Vectors == {<<1, 0>>, <<0, 1>>, <<3, 4>>}

EmbedFail == <<>>

Dot(v, w) == v[1] * w[1] + v[2] * w[2]

\* np.linalg.norm, exact on Vectors
Norm(v) == CHOOSE n \in 0..Dot(v, v) : n * n = Dot(v, v)

_cosine_similarity(vec1, vec2) == (Dot(vec1, vec2) * SimScale) \div (Norm(vec1) * Norm(vec2))

\* round(x, 4), half to even, in units of 1/RoundScale
Round4(x) ==
  LET q == x \div (SimScale \div RoundScale)
      r == x % (SimScale \div RoundScale)
      half == (SimScale \div RoundScale) \div 2
  IN IF r > half \/ (r = half /\ q % 2 = 1) THEN q + 1 ELSE q

\* str.strip() on the field texts of the model
Strip(v) == IF v = " " THEN "" ELSE v

\* the schema's field order
FieldOrder == <<"Front", "Back">>

\* lines 857-860: the values that are non-empty after strip(), in field order
\* (the text is their join by single spaces; it is empty iff there is none)
CombinedText(note) ==
  LET vals == [k \in 1..Len(FieldOrder) |-> note.fields[FieldOrder[k]].value]
  IN SelectSeq(vals, LAMBDA v : Strip(v) # "")

\* the skip test if it never skipped
EmptyTextNever(combined_text) == FALSE

\* line 862: `not combined_text.strip()`: a join of blank texts strips to nothing
EmptyText(combined_text) ==
  \A k \in 1..Len(combined_text) : Strip(combined_text[k]) = ""

\* the test if it were exclusive
ClearsStrict(similarity, similarity_threshold) == similarity > similarity_threshold

\* line 869
Clears(similarity, similarity_threshold) == similarity >= similarity_threshold

\* the pass if an embedding failure ended it
RECURSIVE SimilaritiesBreak(_, _, _, _, _)
SimilaritiesBreak(notes, k, search_embedding, similarity_threshold, emb) ==
  IF k > Len(notes) THEN [similarities |-> <<>>, calls |-> <<>>]
  ELSE LET note == notes[k]
           combined_text == CombinedText(note)
           rest == SimilaritiesBreak(notes, k + 1, search_embedding, similarity_threshold, emb)
       IN IF EmptyText(combined_text) THEN rest
          ELSE LET c == <<Request("embeddings", [note |-> note.noteId, text |-> combined_text])>>
                   note_embedding == emb[note.noteId]
               IN IF note_embedding = EmbedFail
                  THEN [similarities |-> <<>>, calls |-> c]
                  ELSE LET similarity == _cosine_similarity(search_embedding, note_embedding)
                       IN IF Clears(similarity, similarity_threshold)
                          THEN [similarities |->
                                  <<[note |-> note, similarity |-> similarity,
                                     combined_text |-> combined_text]>> \o rest.similarities,
                                calls |-> c \o rest.calls]
                          ELSE [rest EXCEPT !.calls = c \o @]

\* lines 855-877: one pass over the fetched notes; embedding failures skipped
RECURSIVE Similarities(_, _, _, _, _)
Similarities(notes, k, search_embedding, similarity_threshold, emb) ==
  IF k > Len(notes) THEN [similarities |-> <<>>, calls |-> <<>>]
  ELSE LET note == notes[k]
           combined_text == CombinedText(note)
           rest == Similarities(notes, k + 1, search_embedding, similarity_threshold, emb)
       IN IF EmptyText(combined_text) THEN rest
          ELSE LET c == <<Request("embeddings", [note |-> note.noteId, text |-> combined_text])>>
                   note_embedding == emb[note.noteId]
               IN IF note_embedding = EmbedFail
                  THEN [rest EXCEPT !.calls = c \o @]
                  ELSE LET similarity == _cosine_similarity(search_embedding, note_embedding)
                       IN IF Clears(similarity, similarity_threshold)
                          THEN [similarities |->
                                  <<[note |-> note, similarity |-> similarity,
                                     combined_text |-> combined_text]>> \o rest.similarities,
                                calls |-> c \o rest.calls]
                          ELSE [rest EXCEPT !.calls = c \o @]

\* the insertion of a sort that puts an element ahead of its ties
InsertBeforeTies(sorted, x) ==
  LET ahead == SelectSeq(sorted, LAMBDA y : y.similarity > x.similarity)
      behind == SelectSeq(sorted, LAMBDA y : y.similarity <= x.similarity)
  IN ahead \o <<x>> \o behind

\* line 880: list.sort(key=similarity, reverse=True) is stable: an element goes
\* behind every element whose similarity is at least its own
InsertDesc(sorted, x) ==
  LET ahead == SelectSeq(sorted, LAMBDA y : y.similarity >= x.similarity)
      behind == SelectSeq(sorted, LAMBDA y : y.similarity < x.similarity)
  IN ahead \o <<x>> \o behind

RECURSIVE SortDesc(_, _, _)
SortDesc(similarities, k, sorted) ==
  IF k > Len(similarities) THEN sorted
  ELSE SortDesc(similarities, k + 1, InsertDesc(sorted, similarities[k]))

\* the list if it were not cut
TruncateNone(similarities, max_results) == similarities

\* line 881: similarities[:max_results]
Truncate(similarities, max_results) ==
  SubSeq(similarities, 1, IF Len(similarities) < max_results
                          THEN Len(similarities) ELSE max_results)

\* lines 892-906
FormattedNote(item) ==
  [note_id |-> item.note.noteId,
   model_name |-> item.note.modelName,
   tags |-> item.note.tags,
   similarity_score |-> Round4(item.similarity),
   fields |-> [f \in DOMAIN item.note.fields |-> item.note.fields[f].value]]

\* the requests issued when the credential is tested if the deck were queried
\* first
CallsBeforeKeyCheckFind(deck_name) == <<Request("findNotes", deck_name)>>

\* lines 802-809: the credential is tested before the first request
CallsBeforeKeyCheck(deck_name) == <<>>

\* the embedding requests if the query were embedded after the notes
EmbedOrderLate(query_call, note_calls) == note_calls \o query_call

\* lines 850-866: the query is embedded once, then the notes one by one
EmbedOrder(query_call, note_calls) == query_call \o note_calls

FindFailed == [error |-> "Failed to find similar notes", success |-> FALSE]

\* line 830
NoNotesInDeck(deck_name) == [error |-> "No notes found in deck", success |-> FALSE]

\* e.key: OPENAI_API_KEY is set; e.find, e.info: how findNotes and notesInfo
\* end; e.query: the embedding of search_text; e.emb: the embedding per note
find_similar_notes(st, deck_name, search_text, similarity_threshold, max_results, e) ==
  LET none == [res |-> <<>>, calls |-> <<>>, ranked |-> <<>>]
      c1 == <<Request("findNotes", deck_name)>>
      note_ids == StoreFindNotes(st, deck_name)
      c2 == c1 \o <<Request("notesInfo", note_ids)>>
      notes == StoreNotesInfo(st, note_ids)
      query_call == <<Request("embeddings", [note |-> Null, text |-> search_text])>>
      c3 == c2 \o query_call
      sims == Similarities(notes, 1, e.query, similarity_threshold, e.emb)
      similarities == Truncate(SortDesc(sims.similarities, 1, <<>>), max_results)
      c4 == c2 \o EmbedOrder(query_call, sims.calls)
  IN CASE ~e.key ->
            [none EXCEPT !.res = [error |-> "OpenAI API key not found",
                                  success |-> FALSE,
                                  setup_instructions |-> "export OPENAI_API_KEY"],
                         !.calls = CallsBeforeKeyCheck(deck_name)]
       [] e.key /\ e.find = "raise" -> [none EXCEPT !.res = FindFailed, !.calls = c1]
       [] e.key /\ e.find = "status" -> [none EXCEPT !.res = ConnectError, !.calls = c1]
       [] e.key /\ e.find = "error" -> [none EXCEPT !.res = AnkiError, !.calls = c1]
       [] e.key /\ e.find = "ok" /\ note_ids = <<>> ->
            [none EXCEPT !.res = NoNotesInDeck(deck_name), !.calls = c1]
       [] OTHER ->
            CASE e.info = "raise" -> [none EXCEPT !.res = FindFailed, !.calls = c2]
              [] e.info = "status" -> [none EXCEPT !.res = ConnectError, !.calls = c2]
              [] e.info = "error" -> [none EXCEPT !.res = AnkiError, !.calls = c2]
              [] e.info = "ok" /\ e.query = EmbedFail ->
                   [none EXCEPT !.res = FindFailed, !.calls = c3]
              [] OTHER ->
                   IF similarities = <<>>
                   THEN [res |-> [success |-> TRUE, found_count |-> 0, notes |-> <<>>],
                         calls |-> c4, ranked |-> similarities]
                   ELSE [res |-> [success |-> TRUE,
                                  search_text |-> search_text,
                                  found_count |-> Len(similarities),
                                  similarity_threshold |-> similarity_threshold,
                                  deck_name |-> deck_name,
                                  notes |-> [k \in 1..Len(similarities) |->
                                               FormattedNote(similarities[k])]],
                         calls |-> c4, ranked |-> similarities]

\* similarity_threshold is validated to [0.0, 1.0]; 0.7 is the default
Thresholds == {0, (SimScale \div 10) * 6, (SimScale \div 10) * 7, SimScale}

\* largest max_results a caller passes (validated to [1, 50])
MaxResultsIn == 2

DeckNames == {"Demo", "Unknown"}

\* the notes of the deck whose text is embedded
EmbeddedIds(st, deck_name) ==
  {id \in DOMAIN st : deck_name = "Demo" /\ CombinedText(NoteInfo(st, id)) # <<>>}

\* one answer of the provider per note of the deck; a note that is never
\* embedded has none to choose
EmbeddingsFor(st, deck_name) ==
  {m \in [{id \in DOMAIN st : deck_name = "Demo"} -> Vectors \cup {EmbedFail}] :
     \A id \in DOMAIN m : id \notin EmbeddedIds(st, deck_name) => m[id] = <<1, 0>>}

NoEnv == [key |-> TRUE, find |-> "ok", info |-> "ok", query |-> <<1, 0>>, emb |-> <<>>]

\* the answers that lead to different paths of find_similar_notes
FindEnvs(st, deck_name) ==
  {[NoEnv EXCEPT !.key = FALSE]}
    \cup {[NoEnv EXCEPT !.find = o] : o \in Outcomes \ {"ok"}}
    \cup (IF StoreFindNotes(st, deck_name) = <<>> THEN {NoEnv}
          ELSE {[NoEnv EXCEPT !.info = o] : o \in Outcomes \ {"ok"}}
                 \cup {[NoEnv EXCEPT !.query = EmbedFail]}
                 \cup {[NoEnv EXCEPT !.query = q, !.emb = m] :
                         q \in {<<1, 0>>, <<3, 4>>},
                         m \in EmbeddingsFor(st, deck_name)})

FindSimilarNotes ==
  /\ op = Idle
  /\ \E deck_name \in DeckNames, similarity_threshold \in Thresholds,
       max_results \in 1..MaxResultsIn :
       \E e \in FindEnvs(store, deck_name) :
         LET r == find_similar_notes(store, deck_name, "query", similarity_threshold,
                                     max_results, e)
         IN /\ op' = [name |-> "find_similar_notes", deck_name |-> deck_name,
                      similarity_threshold |-> similarity_threshold,
                      max_results |-> max_results]
            /\ env' = e
            /\ pre' = store
            /\ store' = store
            /\ calls' = r.calls
            /\ result' = r.res
            /\ ranked' = r.ranked

\* the response is delivered; the server waits for the next tool call
Return ==
  /\ op # Idle
  /\ op' = Idle
  /\ pre' = store
  /\ env' = <<>>
  /\ calls' = <<>>
  /\ result' = <<>>
  /\ ranked' = <<>>
  /\ UNCHANGED store

Next ==
  \/ CreateNotesBulk
  \/ UpdateNote
  \/ UpdateNotesBulk
  \/ FindSimilarNotes
  \/ Return

Spec == Init /\ [][Next]_vars

(***************************************************************************)
(* The search alone, over decks whose notes also hold whitespace-only texts *)
(***************************************************************************)
\* field texts of the searched notes: " " is not empty but strips to nothing
SearchValues == Values \cup {" "}

SearchNotes == [modelName : {"Basic"}, fields : [FieldNames -> SearchValues], tags : TagLists]

SearchStores == UNION {[K -> SearchNotes] : K \in SUBSET NoteIds}

InitSearch ==
  /\ store \in SearchStores
  /\ pre = store
  /\ op = Idle
  /\ env = <<>>
  /\ calls = <<>>
  /\ result = <<>>
  /\ ranked = <<>>

NextSearch ==
  \/ FindSimilarNotes
  \/ Return

SpecSearch == InitSearch /\ [][NextSearch]_vars

(***************************************************************************)
(* Properties                                                              *)
(***************************************************************************)
IsCreate == op.name = "create_notes_bulk"

IsUpdateBulk == op.name = "update_notes_bulk"

IsUpdateNote == op.name = "update_note"

IsFind == op.name = "find_similar_notes"

\* a result carrying total_attempted
IsBatchOutcome == "total_attempted" \in DOMAIN result

Count(seq, P(_)) == Len(SelectSeq(seq, P))

\* a create item that is a dict lacking 'model_name' or 'fields'
LacksKey(x) == IsDict(x) /\ ~WellFormedCreate(x)

\* the note a well-formed create item asks for is held by the store
Created(st, x) ==
  \E id \in DOMAIN st \ DOMAIN pre :
    /\ st[id].fields = x.fields
    /\ st[id].tags = (IF "tags" \in DOMAIN x THEN x.tags ELSE <<>>)

\* C1: create_notes_bulk isolates a malformed item: with some items lacking
\* 'model_name' or 'fields', the rest well-formed and a store that accepts every
\* note, the call returns a batch outcome with total_attempted = len(notes_list)
\* and failed_count >= the number of malformed items, and every well-formed item
\* is created and counted as successful.
C1_MalformedItemIsolated ==
  (/\ IsCreate
   /\ op.notes_list # <<>>
   /\ \A k \in 1..Len(op.notes_list) : IsDict(op.notes_list[k])
   /\ \E k \in 1..Len(op.notes_list) : LacksKey(op.notes_list[k])
   /\ env.add = "ok"
   /\ \A k \in 1..Len(op.notes_list) : env.accept[k]
   /\ Cardinality(NoteIds \ DOMAIN pre) >= Count(op.notes_list, WellFormedCreate))
  => /\ IsBatchOutcome
     /\ result.total_attempted = Len(op.notes_list)
     /\ result.failed_count >= Count(op.notes_list, LacksKey)
     /\ result.successful_count = Count(op.notes_list, WellFormedCreate)
     /\ \A k \in 1..Len(op.notes_list) :
          WellFormedCreate(op.notes_list[k]) => Created(store, op.notes_list[k])

\* C2: find_similar_notes on a deck for which the store returns no note
\* identifiers, with the credential present and the store reachable, returns
\* success=True with found_count=0 and never a failure result.
C2_EmptyDeckIsSuccess ==
  (/\ IsFind
   /\ env.key
   /\ env.find = "ok"
   /\ StoreFindNotes(pre, op.deck_name) = <<>>)
  => /\ "success" \in DOMAIN result
     /\ result.success
     /\ "found_count" \in DOMAIN result
     /\ result.found_count = 0

\* C3: create_notes_bulk, update_notes_bulk and find_similar_notes return, for
\* every outcome of every external call, a structured result with a `success`
\* boolean and, when success is false, an `error` string; no fault escapes.
C3_StructuredResultAlways ==
  (IsCreate \/ IsUpdateBulk \/ IsFind)
  => /\ "success" \in DOMAIN result
     /\ result.success \in BOOLEAN
     /\ (~result.success => "error" \in DOMAIN result)

\* the list the caller passed to a batch tool
InputList == IF IsCreate THEN op.notes_list ELSE op.updates

\* C4: whenever create_notes_bulk or update_notes_bulk returns a batch outcome,
\* successful_count + failed_count = total_attempted = the length of the input
\* list; for create_notes_bulk each null identifier of the (positionally aligned)
\* response is counted in failed_count and each non-null one in
\* successful_count, the latter being the notes the store actually added.
C4_CountsAddUp ==
  ((IsCreate \/ IsUpdateBulk) /\ IsBatchOutcome)
  => /\ result.successful_count + result.failed_count = result.total_attempted
     /\ result.total_attempted = Len(InputList)
     /\ IsCreate =>
          /\ Len(result.note_ids) = Len(op.notes_list)
          /\ result.failed_count =
               Cardinality({k \in 1..Len(result.note_ids) : result.note_ids[k] = Null})
          /\ result.successful_count =
               Cardinality({k \in 1..Len(result.note_ids) : result.note_ids[k] # Null})
          /\ result.successful_count = Cardinality(DOMAIN store \ DOMAIN pre)
     /\ IsUpdateBulk =>
          /\ result.successful_count = Len(result.successful_updates)
          /\ result.failed_count = Len(result.failed_updates)

\* a bulk create in which the store took one note and refused the other
C4_Witness ==
  /\ IsCreate
  /\ IsBatchOutcome
  /\ result.total_attempted = 2
  /\ result.successful_count = 1
  /\ result.failed_count = 1

\* the 0-based indexes that have an entry in failed_updates
FailedIndexes == {result.failed_updates[k].index : k \in 1..Len(result.failed_updates)}

\* the 0-based indexes without one, in input order
SucceededIndexes == SetToSeq((0..(Len(op.updates) - 1)) \ FailedIndexes)

\* what item k (1-based) must end as, judged from the item, the answer the store
\* gave to it and the notes the store held: nothing about any other item
ItemSucceeds(k) ==
  /\ WellFormedUpdate(op.updates[k])
  /\ env[k] = NoFault
  /\ op.updates[k].note_id \in DOMAIN pre

\* C5: in update_notes_bulk every item of a non-empty list is processed, in
\* input order, and ends as exactly one entry in exactly one of
\* successful_updates or failed_updates; whether an item is recorded as a
\* success or a failure depends on that item alone (its shape, the store's
\* answer to it, whether its note exists), whatever happened to the others.
C5_ItemsIndependent ==
  (IsUpdateBulk /\ op.updates # <<>>)
  => /\ IsBatchOutcome
     /\ Len(result.successful_updates) + Len(result.failed_updates) = Len(op.updates)
     \* one failure entry per failed item, in input order
     /\ \A j, k \in 1..Len(result.failed_updates) :
          j < k => result.failed_updates[j].index < result.failed_updates[k].index
     /\ \A k \in 1..Len(op.updates) : ItemSucceeds(k) <=> (k - 1) \notin FailedIndexes
     \* the successes are the remaining items, in input order
     /\ Len(SucceededIndexes) = Len(result.successful_updates)
     /\ \A k \in 1..Len(result.successful_updates) :
          result.successful_updates[k].note_id = op.updates[SucceededIndexes[k] + 1].note_id
     \* every well-formed item reached the store, one item after another
     /\ \A k \in 1..Len(op.updates) :
          WellFormedUpdate(op.updates[k]) => \E c \in 1..Len(calls) : calls[c].item = k - 1
     /\ \A c, d \in 1..Len(calls) : c < d => calls[c].item <= calls[d].item

\* a batch whose first item failed on an exception and whose second succeeded
C5_Witness ==
  /\ IsUpdateBulk
  /\ Len(op.updates) = 2
  /\ env[1].write = "raise"
  /\ IsBatchOutcome
  /\ Len(result.failed_updates) = 1
  /\ result.failed_updates[1].index = 0
  /\ Len(result.successful_updates) = 1
  /\ op.updates[1].note_id # op.updates[2].note_id

\* the failure entries of a batch outcome
FailureEntries == IF "failed_updates" \in DOMAIN result THEN result.failed_updates ELSE <<>>

\* the 1-based positions of the input whose item failed
FailedItems ==
  IF IsCreate
  THEN {k \in 1..Len(result.note_ids) : result.note_ids[k] = Null}
  ELSE {k \in 1..Len(op.updates) : ~ItemSucceeds(k)}

\* C6: the batch outcome of create_notes_bulk and of update_notes_bulk holds,
\* for every failed item, a failure entry with the original payload and an error
\* description, the entries in the order of the input list.
C6_FailureEntriesCarryPayload ==
  ((IsCreate \/ IsUpdateBulk) /\ IsBatchOutcome)
  => /\ \A k \in FailedItems :
          \E j \in 1..Len(FailureEntries) :
            /\ FailureEntries[j].data = InputList[k]
            /\ "error" \in DOMAIN FailureEntries[j]
     /\ \A i, j \in 1..Len(FailureEntries) :
          i < j => FailureEntries[i].index < FailureEntries[j].index

\* the caller's fields laid over the fields the note had
Overlay(old_fields, fields) ==
  [f \in DOMAIN old_fields |-> IF f \in DOMAIN fields THEN fields[f] ELSE old_fields[f]]

\* the updateNoteFields requests of the call (as sent), in order
UpdateRequests ==
  LET reqs == IF IsUpdateBulk THEN [c \in 1..Len(calls) |-> calls[c].request] ELSE calls
  IN SelectSeq(reqs, LAMBDA r : r.action = "updateNoteFields")

\* the items of a bulk update that succeeded (1-based positions)
SucceededItems == {k \in 1..Len(op.updates) : ItemSucceeds(k)}

\* the succeeded items that are the only succeeded item on their note
AloneOnNote ==
  {k \in SucceededItems :
     \A j \in SucceededItems : j # k => op.updates[j].note_id # op.updates[k].note_id}

\* C7: update merge invariant: after a successful update_note (directly or as an
\* item of update_notes_bulk) every field of the note the caller did not name has
\* in the store the value it had before the update and every named field has the
\* supplied value; the request sent to the store carries exactly that merged
\* mapping, and no other note changes.
C7_UpdateMerges ==
  /\ (IsUpdateNote /\ "success" \in DOMAIN result /\ result.success)
     => /\ store[op.note_id].fields = Overlay(pre[op.note_id].fields, op.fields)
        /\ Len(UpdateRequests) = 1
        /\ UpdateRequests[1].params.fields = Overlay(pre[op.note_id].fields, op.fields)
        /\ \A id \in DOMAIN pre : id # op.note_id => store[id] = pre[id]
        /\ DOMAIN store = DOMAIN pre
  /\ (IsUpdateBulk /\ IsBatchOutcome)
     => /\ \A k \in AloneOnNote :
             LET id == op.updates[k].note_id
                 merged == Overlay(pre[id].fields, op.updates[k].fields)
             IN /\ store[id].fields = merged
                /\ \E r \in 1..Len(UpdateRequests) :
                     /\ UpdateRequests[r].params.id = id
                     /\ UpdateRequests[r].params.fields = merged
        /\ \A id \in DOMAIN pre :
             (\A k \in SucceededItems : op.updates[k].note_id # id) => store[id] = pre[id]
        /\ DOMAIN store = DOMAIN pre

\* an update that names only "Back" on a note whose "Front" is not empty
C7_Witness ==
  /\ IsUpdateNote
  /\ "success" \in DOMAIN result
  /\ result.success
  /\ DOMAIN op.fields = {"Back"}
  /\ pre[op.note_id].fields["Front"] = "a"
  /\ pre[op.note_id].fields["Back"] # op.fields["Back"]
  /\ store[op.note_id].fields["Front"] = "a"

\* the tags an update must leave on a note that had old_tags
ExpectedTags(tags, old_tags) == IF tags = None THEN old_tags ELSE tags[1]

\* C8: after a successful update (update_note, or an item of update_notes_bulk)
\* the note's tags are exactly the caller-supplied list when one is supplied,
\* an empty list included, and exactly the tags it had before when none is
\* supplied; the request sent to the store carries those tags.
C8_TagsReplacedOrKept ==
  /\ (IsUpdateNote /\ "success" \in DOMAIN result /\ result.success)
     => /\ store[op.note_id].tags = ExpectedTags(op.tags, pre[op.note_id].tags)
        /\ UpdateRequests[1].params.tags = ExpectedTags(op.tags, pre[op.note_id].tags)
  /\ (IsUpdateBulk /\ IsBatchOutcome)
     => \A k \in AloneOnNote :
          LET id == op.updates[k].note_id
              want == ExpectedTags(Get(op.updates[k], "tags"), pre[id].tags)
          IN /\ store[id].tags = want
             /\ \E r \in 1..Len(UpdateRequests) :
                  /\ UpdateRequests[r].params.id = id
                  /\ UpdateRequests[r].params.tags = want

\* an update that supplies the empty tag list for a note that had a tag
C8_Witness ==
  /\ IsUpdateNote
  /\ "success" \in DOMAIN result
  /\ result.success
  /\ op.tags = Some(<<>>)
  /\ pre[op.note_id].tags = <<"t">>
  /\ store[op.note_id].tags = <<>>

\* the search ran to the ranking (no fatal error before it)
Ranked == IsFind /\ "success" \in DOMAIN result /\ result.success

\* the candidates of the search: notes of the deck whose text was embedded
Candidates == {id \in EmbeddedIds(pre, op.deck_name) : env.emb[id] # EmbedFail}

\* a candidate's unrounded similarity to the query
Score(id) == (Dot(env.query, env.emb[id]) * SimScale) \div (Norm(env.query) * Norm(env.emb[id]))

\* the identifiers of the returned notes, in order
ReturnedIds == [k \in 1..Len(result.notes) |-> result.notes[k].note_id]

\* C9: every note returned by find_similar_notes has an unrounded similarity
\* >= similarity_threshold, and the comparison is inclusive: a candidate scoring
\* exactly the threshold is returned unless max_results cut the list.
C9_ThresholdInclusive ==
  Ranked
  => /\ Len(ranked) = Len(result.notes)
     /\ \A k \in 1..Len(ranked) :
          /\ ranked[k].note.noteId = result.notes[k].note_id
          /\ ranked[k].note.noteId \in Candidates
          /\ ranked[k].similarity = Score(ranked[k].note.noteId)
          /\ ranked[k].similarity >= op.similarity_threshold
     /\ Len(result.notes) < op.max_results
        => \A id \in Candidates :
             Score(id) = op.similarity_threshold => \E k \in 1..Len(result.notes) : ReturnedIds[k] = id

\* a returned note that scores exactly a non-zero threshold
C9_Witness ==
  /\ Ranked
  /\ op.similarity_threshold > 0
  /\ \E k \in 1..Len(ranked) : ranked[k].similarity = op.similarity_threshold

\* the position of a note in the list the store returned
RetrievalIndex(id) ==
  CHOOSE k \in 1..Len(StoreFindNotes(pre, op.deck_name)) :
    StoreFindNotes(pre, op.deck_name)[k] = id

\* C10: the notes returned by find_similar_notes are ordered non-increasing by
\* similarity, and two returned notes with equal similarity appear in the order
\* in which the store returned them.
C10_SortedStable ==
  Ranked
  => \A j, k \in 1..Len(result.notes) :
       j < k
       => /\ ReturnedIds[j] # ReturnedIds[k]
          /\ Score(ReturnedIds[j]) >= Score(ReturnedIds[k])
          /\ result.notes[j].similarity_score >= result.notes[k].similarity_score
          /\ Score(ReturnedIds[j]) = Score(ReturnedIds[k])
             => RetrievalIndex(ReturnedIds[j]) < RetrievalIndex(ReturnedIds[k])

\* two returned notes with the same similarity
C10_Witness ==
  /\ Ranked
  /\ Len(result.notes) = 2
  /\ Score(ReturnedIds[1]) = Score(ReturnedIds[2])

\* the candidates whose similarity clears the threshold
Clearing == {id \in Candidates : Score(id) >= op.similarity_threshold}

Min(a, b) == IF a < b THEN a ELSE b

\* C11: the number of notes returned by find_similar_notes, and the reported
\* found_count, never exceeds max_results nor the number of candidates clearing
\* the threshold: it is the smaller of the two, and the cut keeps the
\* highest-ranked results (no note left out scores above a returned one).
C11_CountIsMin ==
  Ranked
  => /\ result.found_count = Len(result.notes)
     /\ Len(result.notes) <= op.max_results
     /\ Len(result.notes) <= Cardinality(Clearing)
     /\ Len(result.notes) = Min(op.max_results, Cardinality(Clearing))
     /\ \A k \in 1..Len(result.notes) : ReturnedIds[k] \in Clearing
     /\ \A id \in Clearing :
          (\A k \in 1..Len(result.notes) : ReturnedIds[k] # id)
          => \A k \in 1..Len(result.notes) : Score(ReturnedIds[k]) >= Score(id)

\* two candidates clear the threshold, max_results is 1 and the better one
\* is the note returned
C11_Witness ==
  /\ Ranked
  /\ op.max_results = 1
  /\ Cardinality(Clearing) = 2
  /\ Len(result.notes) = 1
  /\ \E id \in Clearing : Score(id) < Score(ReturnedIds[1])

\* the embedding requests of the call, in order
EmbeddingCalls == SelectSeq(calls, LAMBDA c : c.action = "embeddings")

\* the requests that embed the text of note id
EmbeddedTimes(id) == Count(EmbeddingCalls, LAMBDA c : c.params.note = id)

\* every field text of the note is empty after trimming
BlankNote(id) == \A f \in DOMAIN pre[id].fields : pre[id].fields[f] \in {"", " "}

\* C12: in find_similar_notes a note whose flattened text is empty (no field is
\* non-empty after trimming) never appears in the results, whatever the
\* threshold, 0.0 included, and no embedding request is issued for it.
C12_BlankNoteSkipped ==
  IsFind
  => \A id \in DOMAIN pre :
       BlankNote(id)
       => /\ EmbeddedTimes(id) = 0
          /\ "notes" \in DOMAIN result
             => \A k \in 1..Len(result.notes) : result.notes[k].note_id # id

\* a search with threshold 0 over a deck holding a note of whitespace-only
\* texts and a note that is returned
C12_Witness ==
  /\ Ranked
  /\ op.similarity_threshold = 0
  /\ Len(result.notes) = 1
  /\ \E id \in DOMAIN pre :
       /\ BlankNote(id)
       /\ \E f \in DOMAIN pre[id].fields : pre[id].fields[f] = " "
       /\ ReturnedIds[1] # id

\* the notes of the searched deck
DeckIds == IF op.deck_name = "Demo" THEN DOMAIN pre ELSE {}

\* the call got as far as the pass over the notes: the credential is set, the
\* deck has notes, they were fetched and the query was embedded
LoopReached ==
  /\ IsFind
  /\ env.key /\ env.find = "ok" /\ env.info = "ok" /\ env.query # EmbedFail
  /\ DeckIds # {}

\* the notes of the deck that have a text to embed
WithText == {id \in DeckIds : ~BlankNote(id)}

\* the notes whose embedding request fails
FailedEmbedding == {id \in WithText : env.emb[id] = EmbedFail}

IsReturned(id) ==
  "notes" \in DOMAIN result /\ \E k \in 1..Len(result.notes) : result.notes[k].note_id = id

\* position in calls of the request that embeds note id (0 if there is none)
EmbedPosition(id) ==
  LET at == {k \in 1..Len(calls) :
               calls[k].action = "embeddings" /\ calls[k].params.note = id}
  IN IF at = {} THEN 0 ELSE CHOOSE k \in at : \A j \in at : k <= j

\* C13: in find_similar_notes the failure of the embedding request of one
\* candidate excludes that note only: every other note with a text is still
\* embedded and scored, the call succeeds, and the failed candidate is neither
\* returned nor reported as an error.
C13_EmbeddingFailureSkipsOneNote ==
  LoopReached
  => /\ result.success = TRUE
     /\ DOMAIN result \subseteq {"success", "found_count", "notes", "search_text",
                                 "similarity_threshold", "deck_name"}
     /\ \A id \in WithText : EmbeddedTimes(id) = 1
     /\ \A id \in FailedEmbedding : ~IsReturned(id)
     /\ \A id \in WithText \ FailedEmbedding :
          Score(id) >= op.similarity_threshold
          => IsReturned(id) \/ Len(result.notes) = op.max_results

\* the first note's embedding fails and the note after it is embedded and
\* returned
C13_Witness ==
  /\ LoopReached
  /\ \E a \in FailedEmbedding, b \in WithText \ FailedEmbedding :
       /\ 0 < EmbedPosition(a)
       /\ EmbedPosition(a) < EmbedPosition(b)
       /\ IsReturned(b)

\* positions in calls of the request that embeds the query
QueryPositions ==
  {k \in 1..Len(calls) : calls[k].action = "embeddings" /\ calls[k].params.note = Null}

\* positions in calls of the requests that embed a note
CandidatePositions ==
  {k \in 1..Len(calls) : calls[k].action = "embeddings" /\ calls[k].params.note # Null}

\* the call got as far as embedding the query
QueryReached ==
  /\ IsFind
  /\ env.key /\ env.find = "ok" /\ env.info = "ok"
  /\ DeckIds # {}

\* C14: find_similar_notes embeds the query once per call, before any candidate;
\* if that request fails the call fails as a whole (success=False with an
\* error), no candidate is embedded and no notes are returned.
C14_QueryEmbeddedOnceFirst ==
  IsFind
  => /\ Cardinality(QueryPositions) <= 1
     /\ QueryReached => Cardinality(QueryPositions) = 1
     /\ \A q \in QueryPositions : \A c \in CandidatePositions : q < c
     /\ CandidatePositions # {} => QueryPositions # {}
     /\ QueryReached /\ env.query = EmbedFail
        => /\ result.success = FALSE
           /\ "error" \in DOMAIN result
           /\ "notes" \notin DOMAIN result
           /\ CandidatePositions = {}
           /\ ranked = <<>>

\* the embedding of the query fails in a search over a deck that has notes
\* with a text
C14_Witness ==
  /\ QueryReached
  /\ env.query = EmbedFail
  /\ WithText # {}
  /\ Cardinality(QueryPositions) = 1
  /\ result.success = FALSE

\* C15: without the provider credential find_similar_notes fails (success=False,
\* an error and the remediation text) and sends no request to the record store
\* and none to the embedding provider.
C15_NoKeyNoRequests ==
  IsFind /\ ~env.key
  => /\ result.success = FALSE
     /\ "error" \in DOMAIN result
     /\ "setup_instructions" \in DOMAIN result
     /\ calls = <<>>
     /\ store = pre

\* the credential is absent in a search of a deck that has notes with a text
C15_Witness ==
  /\ IsFind
  /\ ~env.key
  /\ WithText # {}
  /\ "setup_instructions" \in DOMAIN result

\* an item that is not a mapping or lacks note_id or fields
StructurallyInvalid(x) ==
  "nondict" \in DOMAIN x \/ "note_id" \notin DOMAIN x \/ "fields" \notin DOMAIN x

\* the failure entries that carry the 0-based index i
EntriesAt(i) == {j \in 1..Len(result.failed_updates) : result.failed_updates[j].index = i}

\* C16: in update_notes_bulk an item that is structurally invalid (not a
\* mapping, or without note_id or fields) is recorded as one failure entry whose
\* index is the item's position in the input list, and no request is sent to
\* the record store for that item.
C16_InvalidItemIndexed ==
  (IsUpdateBulk /\ IsBatchOutcome)
  => \A k \in 1..Len(op.updates) :
       StructurallyInvalid(op.updates[k])
       => /\ Cardinality(EntriesAt(k - 1)) = 1
          /\ \A j \in EntriesAt(k - 1) :
               /\ result.failed_updates[j].data = op.updates[k]
               /\ "error" \in DOMAIN result.failed_updates[j]
          /\ \A c \in 1..Len(calls) : calls[c].item # k - 1

\* a batch whose first item succeeds and whose second item is not a mapping
C16_Witness ==
  /\ IsUpdateBulk
  /\ IsBatchOutcome
  /\ Len(op.updates) = 2
  /\ ItemSucceeds(1)
  /\ op.updates[2] = NotADict
  /\ Len(result.failed_updates) = 1
  /\ result.failed_updates[1].index = 1
  /\ \E c \in 1..Len(calls) : calls[c].item = 0

\* the note after the succeeding items k..n that target note id were applied to
\* it one after another
RECURSIVE Applied(_, _, _, _)
Applied(id, k, n, note) ==
  IF k > n THEN note
  ELSE Applied(id, k + 1, n,
               IF ItemSucceeds(k) /\ op.updates[k].note_id = id
               THEN [note EXCEPT !.fields = Overlay(@, op.updates[k].fields),
                                 !.tags = ExpectedTags(Get(op.updates[k], "tags"), @)]
               ELSE note)

\* positions in calls of the requests `action` of the item at 1-based position k
ItemPositions(k, action) ==
  {c \in 1..Len(calls) : calls[c].item = k - 1 /\ calls[c].request.action = action}

\* C17: update_notes_bulk applies the items strictly one after another, the
\* fetch-merge-write of an item complete before the next item's fetch; with two
\* successful items on the same note the final state is the original overlaid by
\* the first item's fields and then by the second's.
C17_ItemsAppliedInSequence ==
  (IsUpdateBulk /\ IsBatchOutcome)
  => /\ \A k \in SucceededItems :
          /\ Cardinality(ItemPositions(k, "notesInfo")) = 1
          /\ Cardinality(ItemPositions(k, "updateNoteFields")) = 1
          /\ \A c \in ItemPositions(k, "notesInfo") :
               \A d \in ItemPositions(k, "updateNoteFields") :
                 /\ c < d
                 /\ calls[d].request.params.fields =
                      Applied(op.updates[k].note_id, 1, k, pre[op.updates[k].note_id]).fields
     /\ \A j, k \in 1..Len(op.updates) :
          j < k => \A c, d \in 1..Len(calls) :
                     (calls[c].item = j - 1 /\ calls[d].item = k - 1) => c < d
     /\ \A id \in DOMAIN pre : store[id] = Applied(id, 1, Len(op.updates), pre[id])
     /\ DOMAIN store = DOMAIN pre

\* two successful items on one note: the first names both fields, the second
\* names "Back" again, and the note ends with the first's "Front" and the
\* second's "Back"
C17_Witness ==
  /\ IsUpdateBulk
  /\ IsBatchOutcome
  /\ Len(op.updates) = 2
  /\ ItemSucceeds(1)
  /\ ItemSucceeds(2)
  /\ op.updates[1].note_id = op.updates[2].note_id
  /\ DOMAIN op.updates[1].fields = {"Front", "Back"}
  /\ DOMAIN op.updates[2].fields = {"Back"}
  /\ pre[op.updates[1].note_id].fields["Front"] # op.updates[1].fields["Front"]
  /\ op.updates[1].fields["Back"] # op.updates[2].fields["Back"]
  /\ store[op.updates[1].note_id].fields["Front"] = op.updates[1].fields["Front"]
  /\ store[op.updates[1].note_id].fields["Back"] = op.updates[2].fields["Back"]

====
